---- MODULE Spec2Model ----
(***************************************************************************)
(* The process-side message router UPMNodeProcess                          *)
(* (src/src/node/UPMNodeProcess.ts) together with the handler              *)
(* registrations of the sample utility process (src/unnamed/part_000).     *)
(*                                                                         *)
(* One action per listener / public method.  An async function is cut at   *)
(* its awaits: the part that runs synchronously on arrival of a message is *)
(* one action, each resumption after a pending handler result is another.  *)
(* JavaScript values are written as strings: "true", "false", "null", ...  *)
(***************************************************************************)
EXTENDS Integers, Sequences, FiniteSets, TLC

(* ------------------------------ bounds --------------------------------- *)
MaxMessages == 2         \* messages delivered to the router in one run
MaxRequestHandlers == 2  \* calls of addRequestHandler in one run
MaxEventHandlers == 2    \* calls of addEventHandler in one run
MaxPorts == 2            \* client ports transferred to the router in one run
MaxPortMessages == 3     \* messages delivered in one run of SpecPorts

(* ------------------------- program constants --------------------------- *)
UPMServiceMessage == "UPMServiceMessage"
UPMServiceNewClient == "UPMServiceNewClient"
Request == "request"
Event == "event"
Response == "response"
MainClientId == "main"
ProcessPort == 0

(* -------------------------- input domains ------------------------------ *)
Absent == "<absent>"     \* a field that is not present on an object
ClientPortIds == 1..MaxPorts
ClientIds == {"c1", "c2"}
Types == {"heartbeat", "other"}
Channels == {UPMServiceMessage, UPMServiceNewClient, "bogusChannel"}
Kinds == {Request, Event, Response}

\* Handlers are user-supplied functions: what a call of one does is an input.
\* A request handler either throws before returning or hands back a result
\* to await ...
RequestCallResults == {"threw", "pending"}
\* ... which later resolves with a value or rejects.
RequestSettlements == {"true", "null", "rejected", "rejectedNullish"}

\* An event handler returns true, false or a promise, or throws ...
EventCallResults == {"true", "false", "promise", "threw"}
\* ... and a promise it returned resolves with true or with a truthy value
\* that is not true (both results go through the one `res === true` test,
\* as false does), or rejects.
EventSettlements == {"true", "1", "rejected"}

VARIABLES
    requestHandlers_,  \* Map<string, RequestHandler>: type -> handler
    eventHandlers_,    \* Array<EventHandler>
    clientPorts_,      \* Map<string, MessagePortMain>: clientId -> port
    ports,             \* the client ports: listener's clientId, started, closed
    received,          \* history: the envelopes delivered, in order
    progress,          \* per delivered envelope: where its handling stands
    posted,            \* history: every port.postMessage, in order
    failures,          \* history: errors that left onServiceMessage/listeners
    handlerCount       \* number of addRequestHandler calls so far

vars == <<requestHandlers_, eventHandlers_, clientPorts_, ports, received,
          progress, posted, failures, handlerCount>>

registries == <<requestHandlers_, eventHandlers_, clientPorts_>>

(* ------------------------- thrown values -------------------------------- *)
\* The values a handler may throw or reject with: an Error carrying a
\* message, a bare string, or null/undefined (`Promise.reject()`).
\* `message` is the value's message property, `str` what toString() gives.
ErrorOf(message) ==
    [kind |-> "Error", message |-> message, str |-> "Error: " \o message]
StringThrown(s) == [kind |-> "string", message |-> Absent, str |-> s]
Nullish == [kind |-> "nullish", message |-> Absent, str |-> Absent]

\* assert(cond, message) of @3fv/guard throws an Error with that message.
AssertionError(message) == ErrorOf(message)

\* `handler(type, messageId, ...args)` with args undefined.
SpreadTypeError ==
    ErrorOf("Spread syntax requires ...iterable[Symbol.iterator] to be a function")

\* `err.message` evaluated on null/undefined inside the catch block.
MessageOfNullishTypeError ==
    ErrorOf("Cannot read properties of undefined (reading 'message')")

UnknownHandlerMessage(type) == "Unknown request handler (" \o type \o ")"

OnlyServiceMessageText(channel) ==
    "Only IPCChannel.UPMServiceMessage are allowed on client ports: " \o channel

PortRegisteredMessage(clientId) ==
    "port already registered for clientId(" \o clientId \o ")"

\* What a request handler throws synchronously / rejects with.
ThrownSync == StringThrown("oops")
RejectedWith(settlement) ==
    IF settlement = "rejected" THEN ErrorOf("boom") ELSE Nullish

(* ------------------------- reply envelopes ------------------------------ *)
\* `err.message ?? err.toString()` for a non-nullish err.
errorText(err) == IF err.message # Absent THEN err.message ELSE err.str

\* A reply built as the catch block builds it, for a handler that returned.
successMsgAsError(type, messageId, result) ==
    [channel |-> UPMServiceMessage,
     payload |-> [type |-> type, kind |-> Response, messageId |-> messageId,
                  result |-> "null", error |-> result]]

successMsg(type, messageId, result) ==
    [channel |-> UPMServiceMessage,
     payload |-> [type |-> type, kind |-> Response, messageId |-> messageId,
                  result |-> result, error |-> Absent]]

errorMsg(type, messageId, err) ==
    [channel |-> UPMServiceMessage,
     payload |-> [type |-> type, kind |-> Response, messageId |-> messageId,
                  result |-> "null", error |-> errorText(err)]]

\* A reply sent through processPort whatever port the message came in on.
PostOnProcessPort(port, cause, msg) ==
    [port |-> ProcessPort, cause |-> cause, msg |-> msg]

\* port.postMessage(msg); `cause` is the index in `received` of the envelope
\* being handled (history only).
Post(port, cause, msg) == [port |-> port, cause |-> cause, msg |-> msg]

\* The outcome of one synchronous run of the router on an envelope.
Outcome(state, calls, post, fail) ==
    [state |-> state, calls |-> calls, post |-> post, fail |-> fail]

\* The catch block of the request branch.
catchRequest(port, cause, payload, err, calls) ==
    IF err.kind = "nullish"
    THEN Outcome("rejected", calls, <<>>,
                 <<[cause |-> cause, port |-> port,
                    error |-> MessageOfNullishTypeError.message]>>)
    ELSE Outcome("replied", calls,
                 <<Post(port, cause, errorMsg(payload.type, payload.messageId, err))>>,
                 <<>>)

(* --------------------------- dispatch ----------------------------------- *)
\* One call of a request handler: what it was called with and what it did.
RequestCall(handler, payload, result) ==
    [handler |-> handler, type |-> payload.type, messageId |-> payload.messageId,
     result |-> result, settled |-> Absent]

\* One call of the event handler at position `index` of eventHandlers_.
EventCall(index, handler, clientId, port, result) ==
    [index |-> index, handler |-> handler, clientId |-> clientId, port |-> port,
     result |-> result, settled |-> Absent]

Settle(calls, settlement) ==
    [calls EXCEPT ![Len(calls)].settled = settlement]

\* The request branch without the assert on requestHandlers_.has(type):
\* calling the undefined handler is what throws.
requestBranchNoAssert(port, cause, payload, callResult) ==
    IF payload.type \notin DOMAIN requestHandlers_
    THEN catchRequest(port, cause, payload,
                      ErrorOf("handler is not a function"), <<>>)
    ELSE IF ~payload.hasArgs
    THEN catchRequest(port, cause, payload, SpreadTypeError, <<>>)
    ELSE LET handler == requestHandlers_[payload.type]
             calls == <<RequestCall(handler, payload, callResult)>>
         IN  IF callResult = "threw"
             THEN catchRequest(port, cause, payload, ThrownSync, calls)
             ELSE Outcome("awaiting", calls, <<>>, <<>>)

\* The request branch up to its first await: the lookup, the call of the
\* handler, and the catch block when either throws synchronously.
requestBranch(port, cause, payload, callResult) ==
    IF payload.type \notin DOMAIN requestHandlers_
    THEN catchRequest(port, cause, payload,
                      AssertionError(UnknownHandlerMessage(payload.type)), <<>>)
    ELSE IF ~payload.hasArgs
    THEN catchRequest(port, cause, payload, SpreadTypeError, <<>>)
    ELSE LET handler == requestHandlers_[payload.type]
             calls == <<RequestCall(handler, payload, callResult)>>
         IN  IF callResult = "threw"
             THEN catchRequest(port, cause, payload, ThrownSync, calls)
             ELSE Outcome("awaiting", calls, <<>>, <<>>)

\* A resumption that gives the reply up when its client port has closed.
requestResumeCancelOnClose(port, cause, payload, calls, settlement) ==
    IF port \in ClientPortIds /\ ports[port].closed
    THEN Outcome("replied", Settle(calls, settlement), <<>>, <<>>)
    ELSE IF settlement \in {"rejected", "rejectedNullish"}
    THEN catchRequest(port, cause, payload, RejectedWith(settlement),
                      Settle(calls, settlement))
    ELSE Outcome("replied", Settle(calls, settlement),
                 <<Post(port, cause,
                        successMsg(payload.type, payload.messageId, settlement))>>,
                 <<>>)

\* A resumption that looks the handler up again after the await.
requestResumeLateLookup(port, cause, payload, calls, settlement) ==
    LET handler == IF payload.type \in DOMAIN requestHandlers_
                   THEN requestHandlers_[payload.type]
                   ELSE calls[1].handler
        recalled == [calls EXCEPT ![1].handler = handler]
    IN  IF settlement \in {"rejected", "rejectedNullish"}
        THEN catchRequest(port, cause, payload, RejectedWith(settlement),
                          Settle(recalled, settlement))
        ELSE Outcome("replied", Settle(recalled, settlement),
                     <<Post(port, cause,
                            successMsg(payload.type, payload.messageId, settlement))>>,
                     <<>>)

\* The request branch after `await handler(...)` settles.
requestResume(port, cause, payload, calls, settlement) ==
    IF settlement \in {"rejected", "rejectedNullish"}
    THEN catchRequest(port, cause, payload, RejectedWith(settlement),
                      Settle(calls, settlement))
    ELSE Outcome("replied", Settle(calls, settlement),
                 <<Post(port, cause,
                        successMsg(payload.type, payload.messageId, settlement))>>,
                 <<>>)

\* The loop with its bound off by one: the handler registered last is
\* never reached.
RECURSIVE eventLoopSkipLast(_, _, _, _, _, _)
eventLoopSkipLast(handlers, i, clientId, port, calls, results) ==
    IF i >= Len(handlers)
    THEN Outcome("exhausted", calls, <<>>, <<>>)
    ELSE LET called ==
                 Append(calls, EventCall(i, handlers[i], clientId, port, results[i]))
         IN  CASE results[i] = "threw" -> Outcome("threw", called, <<>>, <<>>)
               [] results[i] = "promise" -> Outcome("suspended", called, <<>>, <<>>)
               [] results[i] = "true" -> Outcome("handled", called, <<>>, <<>>)
               [] OTHER ->
                    eventLoopSkipLast(handlers, i + 1, clientId, port, called, results)

\* The loop without the `return` on a true result.
RECURSIVE eventLoopNoReturn(_, _, _, _, _, _)
eventLoopNoReturn(handlers, i, clientId, port, calls, results) ==
    IF i > Len(handlers)
    THEN Outcome("exhausted", calls, <<>>, <<>>)
    ELSE LET called ==
                 Append(calls, EventCall(i, handlers[i], clientId, port, results[i]))
         IN  CASE results[i] = "threw" -> Outcome("threw", called, <<>>, <<>>)
               [] results[i] = "promise" -> Outcome("suspended", called, <<>>, <<>>)
               [] OTHER ->
                    eventLoopNoReturn(handlers, i + 1, clientId, port, called, results)

\* `for (const handler of this.eventHandlers_)` from position i on, until a
\* handler returns true, throws, or hands back a promise to await;
\* results[j] is what the handler at position j does when called.
RECURSIVE eventLoop(_, _, _, _, _, _)
eventLoop(handlers, i, clientId, port, calls, results) ==
    IF i > Len(handlers)
    THEN Outcome("exhausted", calls, <<>>, <<>>)
    ELSE LET called ==
                 Append(calls, EventCall(i, handlers[i], clientId, port, results[i]))
         IN  CASE results[i] = "threw" -> Outcome("threw", called, <<>>, <<>>)
               [] results[i] = "promise" -> Outcome("suspended", called, <<>>, <<>>)
               [] results[i] = "true" -> Outcome("handled", called, <<>>, <<>>)
               [] OTHER -> eventLoop(handlers, i + 1, clientId, port, called, results)

\* A resumption over a snapshot of the handlers taken before the await:
\* handlers pushed since are not reached.
eventResumeSnapshot(handlers, clientId, port, calls, settlement, results) ==
    CASE settlement = "rejected" ->
            Outcome("threw", Settle(calls, settlement), <<>>, <<>>)
      [] settlement = "true" ->
            Outcome("handled", Settle(calls, settlement), <<>>, <<>>)
      [] OTHER ->
            eventLoop(SubSeq(handlers, 1, Len(calls)), calls[Len(calls)].index + 1,
                      clientId, port, Settle(calls, settlement), results)

\* A resumption whose catch sits inside the loop: after a rejection the
\* loop goes on with the next handler.
eventResumeCatchInLoop(handlers, clientId, port, calls, settlement, results) ==
    CASE settlement = "true" ->
            Outcome("handled", Settle(calls, settlement), <<>>, <<>>)
      [] OTHER ->
            eventLoop(handlers, calls[Len(calls)].index + 1, clientId, port,
                      Settle(calls, settlement), results)

\* The event branch after `res = await resPromise` settles for the handler
\* called last.
eventResume(handlers, clientId, port, calls, settlement, results) ==
    CASE settlement = "rejected" ->
            Outcome("threw", Settle(calls, settlement), <<>>, <<>>)
      [] settlement = "true" ->
            Outcome("handled", Settle(calls, settlement), <<>>, <<>>)
      [] OTHER ->
            eventLoop(handlers, calls[Len(calls)].index + 1, clientId, port,
                      Settle(calls, settlement), results)

\* A match that takes an inbound response for a request.
kindBranchResponseAsRequest(kind) ==
    CASE kind \in {Request, Response} -> "request"
      [] kind = Event -> "event"
      [] OTHER -> "otherwise"

\* match(kind): which branch of onServiceMessage runs.
kindBranch(kind) ==
    CASE kind = Request -> "request"
      [] kind = Event -> "event"
      [] OTHER -> "otherwise"

\* onServiceMessage up to its first pending await.
onServiceMessage(clientId, port, cause, payload, callResult, results) ==
    CASE kindBranch(payload.kind) = "request" ->
            requestBranch(port, cause, payload, callResult)
      [] kindBranch(payload.kind) = "event" ->
            eventLoop(eventHandlers_, 1, clientId, port, <<>>, results)
      [] OTHER -> Outcome("dropped", <<>>, <<>>, <<>>)

\* A match whose fallback treats the envelope as service traffic.
channelBranchDefaultService(channel) ==
    CASE channel = UPMServiceNewClient -> "newClient"
      [] OTHER -> "service"

\* match(channel): which branch of onMessage runs.
channelBranch(channel) ==
    CASE channel = UPMServiceMessage -> "service"
      [] channel = UPMServiceNewClient -> "newClient"
      [] OTHER -> "otherwise"

(* --------------------------- envelopes ---------------------------------- *)
Payload(kind, type, messageId, hasArgs, clientId) ==
    [kind |-> kind, type |-> type, messageId |-> messageId,
     hasArgs |-> hasArgs, clientId |-> clientId]

Envelope(channel, payload) == [channel |-> channel, payload |-> payload]

\* Senders number their messages: the n-th envelope delivered carries
\* messageId "m<n>".
MessageIdOf(n) == "m" \o ToString(n)

\* Service payloads of the given kinds: requests of either type, with or
\* without args; events carry eventData and no args; responses are not
\* expected inbound.
ServicePayloads(kinds, n) ==
    {Payload(Request, t, MessageIdOf(n), a, Absent) :
        t \in IF Request \in kinds THEN Types ELSE {}, a \in BOOLEAN}
    \cup {Payload(k, "heartbeat", MessageIdOf(n), FALSE, Absent) :
             k \in kinds \ {Request}}

NewClientPayloads ==
    {Payload(Absent, Absent, Absent, FALSE, c) : c \in ClientIds}

\* Envelopes on a channel the receiving port does not serve.
StrayProcessEnvelopes(n) ==
    {Envelope("bogusChannel",
              Payload(Request, "heartbeat", MessageIdOf(n), TRUE, "c1"))}

StrayClientEnvelopes(n) ==
    {Envelope(UPMServiceNewClient,
              Payload(Request, "heartbeat", MessageIdOf(n), TRUE, "c2"))}

\* What the host may deliver on the process port as the n-th envelope.
ProcessEnvelopes(kinds, strays, n) ==
    {Envelope(UPMServiceMessage, p) : p \in ServicePayloads(kinds, n)}
    \cup {Envelope(UPMServiceNewClient, p) : p \in NewClientPayloads}
    \cup (IF strays THEN StrayProcessEnvelopes(n) ELSE {})

\* What a client may deliver on its port as the n-th envelope.
ClientEnvelopes(kinds, strays, n) ==
    {Envelope(UPMServiceMessage, p) : p \in ServicePayloads(kinds, n)}
    \cup (IF strays THEN StrayClientEnvelopes(n) ELSE {})

(* ----------------------------- state ------------------------------------ *)
EmptyMap == [k \in {} |-> Absent]

MapSet(map, key, value) ==
    [k \in DOMAIN map \cup {key} |-> IF k = key THEN value ELSE map[k]]

MapDelete(map, key) == [k \in DOMAIN map \ {key} |-> map[k]]

NewPort == [listener |-> Absent, started |-> FALSE, closed |-> FALSE]

Init ==
    /\ requestHandlers_ = EmptyMap
    /\ eventHandlers_ = <<>>
    /\ clientPorts_ = EmptyMap
    /\ ports = [p \in ClientPortIds |-> NewPort]
    /\ received = <<>>
    /\ progress = <<>>
    /\ posted = <<>>
    /\ failures = <<>>
    /\ handlerCount = 0

\* One more envelope has been delivered and handled up to its first await.
Delivered(port, clientId, envelope, outcome) ==
    /\ received' = Append(received,
                          [port |-> port, clientId |-> clientId,
                           channel |-> envelope.channel,
                           payload |-> envelope.payload])
    /\ progress' = Append(progress, [state |-> outcome.state, calls |-> outcome.calls])
    /\ posted' = posted \o outcome.post
    /\ failures' = failures \o outcome.fail

\* message.ports[0]: a port transferred with a message is a fresh one.
FreshPorts ==
    {p \in ClientPortIds :
        /\ ports[p].listener = Absent
        /\ \A q \in ClientPortIds : q < p => ports[q].listener # Absent}

(* ---------------------------- actions ----------------------------------- *)
\* The handler is a new function, named by the count of registrations.
addRequestHandler(type) ==
    /\ handlerCount < MaxRequestHandlers
    /\ handlerCount' = handlerCount + 1
    /\ requestHandlers_' = MapSet(requestHandlers_, type, handlerCount + 1)
    /\ UNCHANGED <<eventHandlers_, clientPorts_, ports, received, progress,
                   posted, failures>>

addEventHandler ==
    /\ Len(eventHandlers_) < MaxEventHandlers
    /\ eventHandlers_' = Append(eventHandlers_, Len(eventHandlers_) + 1)
    /\ UNCHANGED <<requestHandlers_, clientPorts_, ports, received, progress,
                   posted, failures, handlerCount>>

\* A registration that remembers every client id it has ever seen: the
\* close listener does not free the id.
onServiceClientPortNoReuse(clientId, port, envelope) ==
    LET cause == Len(received) + 1
    IN  IF \/ clientId \in DOMAIN clientPorts_
           \/ \E p \in ClientPortIds : ports[p].listener = clientId
        THEN /\ Delivered(ProcessPort, MainClientId, envelope,
                    Outcome("asserted", <<>>, <<>>,
                            <<[cause |-> cause, port |-> ProcessPort,
                               error |-> PortRegisteredMessage(clientId)]>>))
             /\ UNCHANGED ports
        ELSE /\ Delivered(ProcessPort, MainClientId, envelope,
                    Outcome("registered", <<>>, <<>>, <<>>))
             /\ ports' = [ports EXCEPT ![port] =
                            [listener |-> clientId, started |-> TRUE, closed |-> FALSE]]

\* The listeners of a new client port are attached and the port is started;
\* clientPorts_ is only read here.
onServiceClientPort(clientId, port, envelope) ==
    LET cause == Len(received) + 1
    IN  IF clientId \in DOMAIN clientPorts_
        THEN /\ Delivered(ProcessPort, MainClientId, envelope,
                    Outcome("asserted", <<>>, <<>>,
                            <<[cause |-> cause, port |-> ProcessPort,
                               error |-> PortRegisteredMessage(clientId)]>>))
             /\ UNCHANGED ports
        ELSE /\ Delivered(ProcessPort, MainClientId, envelope,
                    Outcome("registered", <<>>, <<>>, <<>>))
             /\ ports' = [ports EXCEPT ![port] =
                            [listener |-> clientId, started |-> TRUE, closed |-> FALSE]]

\* The "message" listener of the process port.
onMessage(envelope, callResult, results) ==
    /\ LET cause == Len(received) + 1
           branch == channelBranch(envelope.channel)
       IN  CASE branch = "service" ->
                  /\ Delivered(ProcessPort, MainClientId, envelope,
                        onServiceMessage(MainClientId, ProcessPort, cause,
                                         envelope.payload, callResult, results))
                  /\ UNCHANGED ports
             [] branch = "newClient" ->
                  \E port \in FreshPorts :
                      onServiceClientPort(envelope.payload.clientId, port, envelope)
             [] OTHER ->
                  /\ Delivered(ProcessPort, MainClientId, envelope,
                        Outcome("dropped", <<>>, <<>>, <<>>))
                  /\ UNCHANGED ports
    /\ UNCHANGED <<registries, handlerCount>>

\* A client port listener without the assert on the channel: whatever
\* arrives is dispatched as service traffic.
onClientMessageNoAssert(port, envelope, callResult, results) ==
    /\ ports[port].started /\ ~ports[port].closed
    /\ Delivered(port, ports[port].listener, envelope,
                 onServiceMessage(ports[port].listener, port, Len(received) + 1,
                                  envelope.payload, callResult, results))
    /\ UNCHANGED <<registries, ports, handlerCount>>

\* The "message" listener of a client port.
onClientMessage(port, envelope, callResult, results) ==
    /\ ports[port].started /\ ~ports[port].closed
    /\ LET cause == Len(received) + 1
           clientId == ports[port].listener
       IN  IF envelope.channel = UPMServiceMessage
           THEN Delivered(port, clientId, envelope,
                    onServiceMessage(clientId, port, cause, envelope.payload,
                                     callResult, results))
           ELSE Delivered(port, clientId, envelope,
                    Outcome("asserted", <<>>, <<>>,
                            <<[cause |-> cause, port |-> port,
                               error |-> OnlyServiceMessageText(envelope.channel)]>>))
    /\ UNCHANGED <<registries, ports, handlerCount>>

\* The "close" listener of a client port.
onClose(port) ==
    /\ ports[port].started /\ ~ports[port].closed
    /\ clientPorts_' = MapDelete(clientPorts_, ports[port].listener)
    /\ ports' = [ports EXCEPT ![port].closed = TRUE]
    /\ UNCHANGED <<requestHandlers_, eventHandlers_, received, progress, posted,
                   failures, handlerCount>>

\* The handling of envelope `cause` goes on from its await.
Resumed(cause, outcome) ==
    /\ progress' = [progress EXCEPT ![cause] =
                       [state |-> outcome.state, calls |-> outcome.calls]]
    /\ posted' = posted \o outcome.post
    /\ failures' = failures \o outcome.fail
    /\ UNCHANGED <<registries, ports, received, handlerCount>>

\* A pending request handler settles.
resumeRequest(cause, settlement) ==
    /\ progress[cause].state = "awaiting"
    /\ Resumed(cause,
               requestResume(received[cause].port, cause, received[cause].payload,
                             progress[cause].calls, settlement))

\* A pending event handler settles.
resumeEvent(cause, settlement, results) ==
    /\ progress[cause].state = "suspended"
    /\ Resumed(cause,
               eventResume(eventHandlers_, received[cause].clientId,
                           received[cause].port, progress[cause].calls,
                           settlement, results))

\* The results after which the loop over the event handlers goes on.
EventContinues == {r \in EventCallResults : r \notin {"true", "promise", "threw"}}

Falses(n) == [j \in 1..n |-> "false"]

\* What the handlers at positions i..n do when the loop reaches position i;
\* handlers the loop does not reach are left at "false".
RECURSIVE ResultsFrom(_, _)
ResultsFrom(i, n) ==
    IF i > n
    THEN {<<>>}
    ELSE {<<r>> \o Falses(n - i) : r \in EventCallResults \ EventContinues}
         \cup {<<r>> \o rest : r \in EventContinues, rest \in ResultsFrom(i + 1, n)}

\* What each event handler now registered does in a loop starting at `from`.
EventResults(from) ==
    {Falses(from - 1) \o rest : rest \in ResultsFrom(from, Len(eventHandlers_))}

AddRequestHandler == \E type \in Types : addRequestHandler(type)

AddEventHandler == addEventHandler

\* The handler results an envelope can ask for: none unless it is a request,
\* respectively an event, on the service channel.
CallResultsFor(envelope) ==
    IF envelope.channel = UPMServiceMessage /\ envelope.payload.kind = Request
    THEN RequestCallResults
    ELSE {"pending"}

EventResultsFor(envelope) ==
    IF envelope.channel = UPMServiceMessage /\ envelope.payload.kind = Event
    THEN EventResults(1)
    ELSE {Falses(Len(eventHandlers_))}

ProcessMessage(kinds, strays) ==
    \E envelope \in ProcessEnvelopes(kinds, strays, Len(received) + 1) :
        /\ Len(received) < MaxMessages
        /\ \E callResult \in CallResultsFor(envelope),
              results \in EventResultsFor(envelope) :
               onMessage(envelope, callResult, results)

ClientMessage(kinds, strays) ==
    \E port \in ClientPortIds,
       envelope \in ClientEnvelopes(kinds, strays, Len(received) + 1) :
        /\ Len(received) < MaxMessages
        /\ \E callResult \in CallResultsFor(envelope),
              results \in EventResultsFor(envelope) :
               onClientMessage(port, envelope, callResult, results)

Close == \E port \in ClientPortIds : onClose(port)

ResumeRequest ==
    \E cause \in {c \in DOMAIN progress : progress[c].state = "awaiting"},
       settlement \in RequestSettlements :
        resumeRequest(cause, settlement)

ResumeEvent ==
    \E cause \in {c \in DOMAIN progress : progress[c].state = "suspended"},
       settlement \in EventSettlements :
        \E results \in EventResults(Len(progress[cause].calls) + 1) :
            resumeEvent(cause, settlement, results)

\* The router with every kind of traffic.
Next ==
    \/ AddRequestHandler
    \/ AddEventHandler
    \/ ProcessMessage(Kinds, TRUE)
    \/ ClientMessage(Kinds, TRUE)
    \/ Close
    \/ ResumeRequest
    \/ ResumeEvent

Spec == Init /\ [][Next]_vars

\* The router when its peers send requests, stray responses and envelopes
\* on channels that are not served.
NextRequests ==
    \/ AddRequestHandler
    \/ ProcessMessage({Request, Response}, TRUE)
    \/ ClientMessage({Request, Response}, TRUE)
    \/ Close
    \/ ResumeRequest

SpecRequests == Init /\ [][NextRequests]_vars

\* The router when its peers send events only, on the channels served.
NextEvents ==
    \/ AddEventHandler
    \/ ProcessMessage({Event}, FALSE)
    \/ ClientMessage({Event}, FALSE)
    \/ Close
    \/ ResumeEvent

SpecEvents == Init /\ [][NextEvents]_vars

\* The router seen from its ports: any port may be announced, used and
\* closed, while the traffic itself is plain: heartbeat requests with args
\* whose handler returns true, and events no handler takes.
PlainPayloads(n) ==
    {Payload(Request, "heartbeat", MessageIdOf(n), TRUE, Absent),
     Payload(Event, "heartbeat", MessageIdOf(n), FALSE, Absent)}

PortsAddRequestHandler == addRequestHandler("heartbeat")

PortsProcessMessage ==
    \E envelope \in {Envelope(UPMServiceMessage, p) :
                        p \in PlainPayloads(Len(received) + 1)}
                    \cup {Envelope(UPMServiceNewClient, p) : p \in NewClientPayloads} :
        /\ Len(received) < MaxPortMessages
        /\ onMessage(envelope, "pending", Falses(Len(eventHandlers_)))

PortsClientMessage ==
    \E port \in ClientPortIds,
       payload \in PlainPayloads(Len(received) + 1) :
        /\ Len(received) < MaxPortMessages
        /\ onClientMessage(port, Envelope(UPMServiceMessage, payload), "pending",
                           Falses(Len(eventHandlers_)))

PortsResumeRequest ==
    \E cause \in {c \in DOMAIN progress : progress[c].state = "awaiting"} :
        resumeRequest(cause, "true")

NextPorts ==
    \/ PortsAddRequestHandler
    \/ AddEventHandler
    \/ PortsProcessMessage
    \/ PortsClientMessage
    \/ Close
    \/ PortsResumeRequest

SpecPorts == Init /\ [][NextPorts]_vars

(* ------------------------ reading the histories ------------------------- *)
\* Envelope i was dispatched by onServiceMessage.
IsService(i) == received[i].channel = UPMServiceMessage
IsRequest(i) == IsService(i) /\ received[i].payload.kind = Request
IsEvent(i) == IsService(i) /\ received[i].payload.kind = Event

\* The handling of envelope i has run to its end.
Settled(i) == progress[i].state \notin {"awaiting", "suspended"}

\* The positions in `posted` of what was posted while handling envelope i.
Replies(i) == {k \in DOMAIN posted : posted[k].cause = i}

\* Posted entry k answers envelope i: same port, service channel, kind
\* response, the request's type and messageId.
Answers(k, i) ==
    /\ posted[k].port = received[i].port
    /\ posted[k].msg.channel = UPMServiceMessage
    /\ posted[k].msg.payload.kind = Response
    /\ posted[k].msg.payload.type = received[i].payload.type
    /\ posted[k].msg.payload.messageId = received[i].payload.messageId

\* The request handler called for envelope i returned / failed.
HandlerReturned(i) ==
    /\ progress[i].calls # <<>>
    /\ progress[i].calls[1].settled \in {"true", "null"}

HandlerFailed(i) ==
    /\ progress[i].calls # <<>>
    /\ \/ progress[i].calls[1].result = "threw"
       \/ progress[i].calls[1].settled \in {"rejected", "rejectedNullish"}

\* An event handler call that gave true, at once or through its promise.
GaveTrue(call) == call.result = "true" \/ call.settled = "true"

\* An event handler call that threw, at once or through its promise.
Threw(call) == call.result = "threw" \/ call.settled = "rejected"

\* The step delivers a new envelope (it is the last of received').
Delivers == Len(received') = Len(received) + 1

(* ------------------------------ claims ---------------------------------- *)
\* C1: every request whose handling has settled has exactly one reply
\* posted, on the port it arrived on, on channel UPMServiceMessage, of kind
\* response and with the request's type and messageId, whether its handler
\* returned or threw.
C1_OneResponsePerRequest ==
    \A i \in DOMAIN received :
        IsRequest(i) /\ Settled(i) =>
            /\ Cardinality(Replies(i)) = 1
            /\ \A k \in Replies(i) : Answers(k, i)

\* C2: when the handler registered for a request's type returns, the reply
\* posted carries the value it returned as result and has no error field.
C2_SuccessCarriesResult ==
    \A i \in DOMAIN received :
        IsRequest(i) /\ HandlerReturned(i) =>
            /\ Cardinality(Replies(i)) = 1
            /\ \A k \in Replies(i) :
                  /\ Answers(k, i)
                  /\ posted[k].msg.payload.result = progress[i].calls[1].settled
                  /\ posted[k].msg.payload.error = Absent

\* The heartbeat handler returned true and true came back as the result.
C2_Witness ==
    \E i \in DOMAIN received :
        /\ IsRequest(i) /\ HandlerReturned(i)
        /\ received[i].payload.type = "heartbeat"
        /\ progress[i].calls[1].settled = "true"
        /\ \E k \in Replies(i) : posted[k].msg.payload.result = "true"

\* C3: when a request's handler throws or its promise rejects, once the
\* handling has settled the one reply posted has result null and an error
\* text, and no error has left the router.
C3_ThrowGivesErrorReply ==
    \A i \in DOMAIN received :
        IsRequest(i) /\ HandlerFailed(i) /\ Settled(i) =>
            /\ Cardinality(Replies(i)) = 1
            /\ \A k \in Replies(i) :
                  /\ Answers(k, i)
                  /\ posted[k].msg.payload.result = "null"
                  /\ posted[k].msg.payload.error # Absent
            /\ \A f \in DOMAIN failures : failures[f].cause # i

\* C4: for every event the handlers are called in the order of
\* registration, each at most once, and a handler that gave true (at once
\* or through its promise) is the last one called: the dispatch ends
\* handled and only on a true result.
C4_EventOrderAndStop ==
    \A i \in DOMAIN received :
        IsEvent(i) =>
            LET calls == progress[i].calls
            IN  /\ Len(calls) <= Len(eventHandlers_)
                /\ \A j \in DOMAIN calls :
                      /\ calls[j].index = j
                      /\ calls[j].handler = eventHandlers_[j]
                      /\ GaveTrue(calls[j]) =>
                            j = Len(calls) /\ progress[i].state = "handled"
                /\ progress[i].state = "handled" =>
                      calls # <<>> /\ GaveTrue(calls[Len(calls)])

\* An event found two handlers registered and called both; a later event
\* ended at the first handler, whose promise gave true.
C4_Witness ==
    \E i, j \in DOMAIN received :
        /\ i < j /\ IsEvent(i) /\ IsEvent(j)
        /\ Len(progress[i].calls) = 2
        /\ progress[j].state = "handled"
        /\ Len(progress[j].calls) = 1
        /\ progress[j].calls[1].settled = "true"

\* C5, in every state: an event handler call that threw is the last call
\* of its event, whose dispatch ended there; nothing was posted for the
\* event; and every event after one that found a handler starts at the
\* first handler.
C5_AfterThrow ==
    \A i \in DOMAIN received :
        IsEvent(i) =>
            LET calls == progress[i].calls
            IN  /\ \A j \in DOMAIN calls :
                      Threw(calls[j]) =>
                          j = Len(calls) /\ progress[i].state = "threw"
                /\ Replies(i) = {}
                /\ \A l \in DOMAIN received :
                      l > i /\ IsEvent(l) /\ calls # <<>> =>
                          /\ progress[l].calls # <<>>
                          /\ progress[l].calls[1].index = 1

\* C5, in every step: a step in which an event's dispatch ends on a throw
\* posts nothing, reports no failure and leaves the registries as they are.
C5_ThrowStep ==
    (\E i \in DOMAIN progress' :
        /\ progress'[i].state = "threw"
        /\ i \in DOMAIN progress => progress[i].state # "threw")
    => /\ posted' = posted
       /\ failures' = failures
       /\ UNCHANGED registries

\* C5: a throwing event handler leaves the later handlers untried, posts
\* nothing and changes no registry; later events start at the first
\* handler again.
C5_ThrowIsSwallowed == [][C5_ThrowStep /\ C5_AfterThrow']_vars

\* An event found two handlers and called both; a later event ended at the
\* first handler, whose promise rejected.
C5_Witness ==
    \E i, j \in DOMAIN received :
        /\ i < j /\ IsEvent(i) /\ IsEvent(j)
        /\ Len(progress[i].calls) = 2
        /\ progress[j].state = "threw"
        /\ Len(progress[j].calls) = 1
        /\ progress[j].calls[1].settled = "rejected"

\* The client ports that have a listener and have not closed.
OpenPorts == {p \in ClientPortIds : ports[p].started /\ ~ports[p].closed}

\* C6: no two open client ports serve the same client id.
C6_OnePortPerClient ==
    \A p, q \in OpenPorts : p # q => ports[p].listener # ports[q].listener

\* C7: the keys of clientPorts_ are exactly the client ids of the open
\* ports, each mapped to its port.
C7_RegistryTracksPorts ==
    /\ DOMAIN clientPorts_ = {ports[p].listener : p \in OpenPorts}
    /\ \A p \in OpenPorts : clientPorts_[ports[p].listener] = p

\* C8: a step that delivers, on the process port, an envelope whose channel
\* is neither UPMServiceMessage nor UPMServiceNewClient calls no handler,
\* registers no port, posts nothing and changes no registry.
C8_UnknownChannelStep ==
    (/\ Delivers
     /\ received'[Len(received')].port = ProcessPort
     /\ received'[Len(received')].channel
            \notin {UPMServiceMessage, UPMServiceNewClient})
    => /\ progress' = Append(progress, [state |-> "dropped", calls |-> <<>>])
       /\ posted' = posted
       /\ failures' = failures
       /\ UNCHANGED <<registries, ports>>

C8_UnknownChannelDropped == [][C8_UnknownChannelStep]_vars

\* A request for a registered type came in on an unknown channel.
C8_Witness ==
    \E i \in DOMAIN received :
        /\ received[i].port = ProcessPort
        /\ received[i].channel = "bogusChannel"
        /\ received[i].payload.type \in DOMAIN requestHandlers_
        /\ progress[i].state = "dropped"

\* C9: a service message whose kind is neither request nor event has no
\* handler called and nothing posted for it.
C9_UnknownKindDropped ==
    \A i \in DOMAIN received :
        IsService(i) /\ received[i].payload.kind \notin {Request, Event} =>
            /\ progress[i].state = "dropped"
            /\ progress[i].calls = <<>>
            /\ Replies(i) = {}

\* An inbound response of a registered type was dropped, on a client port.
C9_Witness ==
    \E i \in DOMAIN received :
        /\ IsService(i)
        /\ received[i].payload.kind = Response
        /\ received[i].port # ProcessPort
        /\ received[i].payload.type \in DOMAIN requestHandlers_
        /\ progress[i].state = "dropped"

\* C10: a step that delivers a request whose type has no handler posts
\* exactly one reply, on the arrival port, with result null and the error
\* "Unknown request handler (<type>)", calls no handler and ends the
\* handling of the request.
C10_UnknownTypeStep ==
    (/\ Delivers
     /\ received'[Len(received')].channel = UPMServiceMessage
     /\ received'[Len(received')].payload.kind = Request
     /\ received'[Len(received')].payload.type \notin DOMAIN requestHandlers_)
    => LET i == Len(received')
           request == received'[i]
       IN  /\ progress'[i] = [state |-> "replied", calls |-> <<>>]
           /\ failures' = failures
           /\ posted' =
                Append(posted,
                       [port |-> request.port, cause |-> i,
                        msg |-> [channel |-> UPMServiceMessage,
                                 payload |->
                                    [type |-> request.payload.type,
                                     kind |-> Response,
                                     messageId |-> request.payload.messageId,
                                     result |-> "null",
                                     error |-> UnknownHandlerMessage(
                                                  request.payload.type)]]])

C10_UnknownTypeAnswered == [][C10_UnknownTypeStep]_vars

\* A request of type "other" was answered with the unknown-handler error
\* while a handler for "heartbeat" was registered.
C10_Witness ==
    \E i \in DOMAIN received :
        /\ IsRequest(i)
        /\ received[i].payload.type = "other"
        /\ received[i].payload.hasArgs
        /\ "heartbeat" \in DOMAIN requestHandlers_
        /\ progress[i] = [state |-> "replied", calls |-> <<>>]
        /\ \E k \in Replies(i) :
              posted[k].msg.payload.error = "Unknown request handler (other)"

\* The announcements that attached a client port, and the one that attached
\* port p: transferred ports are numbered in the order they were attached.
Announcements ==
    {j \in DOMAIN received :
        received[j].channel = UPMServiceNewClient /\ progress[j].state = "registered"}

AnnouncementOf(p) ==
    CHOOSE j \in Announcements :
        Cardinality({a \in Announcements : a <= j}) = p

\* The client id service messages arriving on `port` are dispatched with.
ClientIdOf(port) ==
    IF port = ProcessPort
    THEN MainClientId
    ELSE received[AnnouncementOf(port)].payload.clientId

\* C11: every response is posted on the port its request arrived on; a
\* service message from the process port is dispatched with client id
\* "main", one from a client port with the clientId of the announcement
\* that transferred that port; every event handler called for it receives
\* that client id and that port.
C11_NoCrossRouting ==
    /\ \A k \in DOMAIN posted : posted[k].port = received[posted[k].cause].port
    /\ \A i \in DOMAIN received :
           IsService(i) =>
               /\ received[i].clientId = ClientIdOf(received[i].port)
               /\ IsEvent(i) =>
                      \A c \in DOMAIN progress[i].calls :
                          /\ progress[i].calls[c].clientId = ClientIdOf(received[i].port)
                          /\ progress[i].calls[c].port = received[i].port

\* A request on a client port and a later one on the process port were in
\* flight together; the later one was answered first, each on its own port.
C11_Witness ==
    /\ Len(received) = 3
    /\ IsRequest(2) /\ IsRequest(3)
    /\ received[2].port \in ClientPortIds
    /\ received[3].port = ProcessPort
    /\ Len(posted) = 2
    /\ posted[1].cause = 3 /\ posted[1].port = ProcessPort
    /\ posted[2].cause = 2 /\ posted[2].port = received[2].port

\* C12: a step that delivers, on a client port, an envelope whose channel is
\* not UPMServiceMessage (UPMServiceNewClient included) calls no handler,
\* registers no client port, posts nothing and changes no registry.
C12_ClientStrayStep ==
    (/\ Delivers
     /\ received'[Len(received')].port # ProcessPort
     /\ received'[Len(received')].channel # UPMServiceMessage)
    => /\ progress' = Append(progress, [state |-> "asserted", calls |-> <<>>])
       /\ posted' = posted
       /\ UNCHANGED <<registries, ports>>

C12_ClientPortServiceOnly == [][C12_ClientStrayStep]_vars

\* A UPMServiceNewClient envelope with a request of a registered type came
\* in on a client port while a fresh port was still to be had.
C12_Witness ==
    \E i \in DOMAIN received :
        /\ received[i].port # ProcessPort
        /\ received[i].channel = UPMServiceNewClient
        /\ received[i].payload.type \in DOMAIN requestHandlers_
        /\ progress[i].state = "asserted"
        /\ FreshPorts # {}

\* The client ids of the ports that have been closed.
ClosedClientIds == {ports[p].listener : p \in {q \in ClientPortIds : ports[q].closed}}

\* C13, in every step: (a) the close of a client port removes its client id
\* from clientPorts_ and changes nothing else: the other entries, the
\* handler registries, the other ports and the traffic stay as they were;
\* (b) an announcement for a client id whose port was closed is accepted:
\* a fresh port is listened on for that id and started; (c) a request
\* delivered on the port of such a client id is dispatched like any other:
\* its handler is called, or the error reply is posted on that port.
C13_CloseStep ==
    /\ \A p \in ClientPortIds :
           (~ports[p].closed /\ ports'[p].closed)
           => /\ clientPorts_' = MapDelete(clientPorts_, ports[p].listener)
              /\ ports[p].listener \notin DOMAIN clientPorts_'
              /\ \A c \in DOMAIN clientPorts_ \ {ports[p].listener} :
                     c \in DOMAIN clientPorts_' /\ clientPorts_'[c] = clientPorts_[c]
              /\ ports' = [ports EXCEPT ![p].closed = TRUE]
              /\ UNCHANGED <<requestHandlers_, eventHandlers_, received,
                             progress, posted, failures>>
    /\ (/\ Delivers
        /\ received'[Len(received')].channel = UPMServiceNewClient
        /\ received'[Len(received')].payload.clientId \in ClosedClientIds)
       => /\ progress'[Len(progress')].state = "registered"
          /\ failures' = failures
          /\ \E p \in ClientPortIds :
                 /\ ports[p].listener = Absent
                 /\ ports' = [ports EXCEPT ![p] =
                        [listener |-> received'[Len(received')].payload.clientId,
                         started |-> TRUE, closed |-> FALSE]]
    /\ (/\ Delivers
        /\ received'[Len(received')].port \in ClientPortIds
        /\ received'[Len(received')].clientId \in ClosedClientIds
        /\ received'[Len(received')].channel = UPMServiceMessage
        /\ received'[Len(received')].payload.kind = Request)
       => LET i == Len(received')
              type == received'[i].payload.type
          IN  IF type \in DOMAIN requestHandlers_ /\ received'[i].payload.hasArgs
              THEN /\ Len(progress'[i].calls) = 1
                   /\ progress'[i].calls[1].handler = requestHandlers_[type]
                   /\ progress'[i].calls[1].messageId = received'[i].payload.messageId
              ELSE /\ progress'[i].state = "replied"
                   /\ posted' = Append(posted, posted'[Len(posted')])
                   /\ posted'[Len(posted')].cause = i
                   /\ posted'[Len(posted')].port = received'[i].port

C13_CloseFreesClientId == [][C13_CloseStep]_vars

\* A client's port was closed, the client id was announced again, and a
\* request on the new port was answered there with its handler's result.
C13_Witness ==
    /\ Len(received) = 3
    /\ received[1].channel = UPMServiceNewClient
    /\ received[2].channel = UPMServiceNewClient
    /\ received[2].payload.clientId = received[1].payload.clientId
    /\ progress[2].state = "registered"
    /\ ports[1].closed /\ ~ports[2].closed
    /\ ports[2].listener = ports[1].listener
    /\ IsRequest(3) /\ received[3].port = 2
    /\ progress[3].state = "replied"
    /\ \E k \in DOMAIN posted :
           /\ Answers(k, 3)
           /\ posted[k].msg.payload.result = "true"
           /\ posted[k].msg.payload.error = Absent

\* C14, in every step: addRequestHandler maps its type to the new handler
\* and leaves the other types and the event handlers alone; a request of a
\* type that has a handler calls exactly that handler, exactly once.
C14_ReplaceStep ==
    /\ handlerCount' # handlerCount =>
          /\ eventHandlers_' = eventHandlers_
          /\ \E type \in Types :
                /\ DOMAIN requestHandlers_' = DOMAIN requestHandlers_ \cup {type}
                /\ requestHandlers_'[type] = handlerCount'
                /\ \A t \in DOMAIN requestHandlers_ \ {type} :
                      requestHandlers_'[t] = requestHandlers_[t]
    /\ (/\ Delivers
        /\ received'[Len(received')].channel = UPMServiceMessage
        /\ received'[Len(received')].payload.kind = Request
        /\ received'[Len(received')].payload.type \in DOMAIN requestHandlers_)
       => LET calls == progress'[Len(received')].calls
          IN  /\ Len(calls) = 1
              /\ calls[1].handler =
                    requestHandlers_[received'[Len(received')].payload.type]

\* C14: one handler per type, the latest registered, called exactly once
\* for every request of the type.
C14_LatestHandlerOnce == [][C14_ReplaceStep]_vars

\* C15, in every step: a step in which an event's dispatch ends with no
\* handler having given true or thrown has called every handler registered,
\* once each, in the order of registration.
C15_ExhaustedStep ==
    \A i \in DOMAIN progress' :
        (/\ progress'[i].state = "exhausted"
         /\ i \in DOMAIN progress => progress[i].state # "exhausted")
        => /\ Len(progress'[i].calls) = Len(eventHandlers_)
           /\ \A j \in DOMAIN progress'[i].calls :
                 /\ progress'[i].calls[j].index = j
                 /\ progress'[i].calls[j].handler = eventHandlers_[j]
                 /\ ~GaveTrue(progress'[i].calls[j])
                 /\ ~Threw(progress'[i].calls[j])

\* C15, in every state: nothing has been posted for any event.
C15_NoReply ==
    \A k \in DOMAIN posted : ~IsEvent(posted[k].cause)

\* C15: events never have anything posted for them, and an event no
\* handler takes has been offered to every handler, in order, once.
C15_EventsAreSilent == [][C15_ExhaustedStep /\ C15_NoReply']_vars

\* Events ended handled, thrown and exhausted after two handlers; nothing
\* was posted.
C15_Witness ==
    /\ posted = <<>>
    /\ Len(eventHandlers_) = 2
    /\ \E i, j \in DOMAIN received :
          /\ IsEvent(i) /\ IsEvent(j)
          /\ progress[i].state = "exhausted"
          /\ Len(progress[i].calls) = 2
          /\ progress[j].state \in {"handled", "threw"}

\* C16, in every step: a request calls the handler its type has when it is
\* delivered; registering a handler changes no call and posts nothing; and
\* the settling of a request leaves the handler that was called as it is
\* and posts the reply for that call.
C16_LookupStep ==
    /\ (/\ Delivers
        /\ progress'[Len(received')].state = "awaiting")
       => progress'[Len(received')].calls[1].handler =
             requestHandlers_[received'[Len(received')].payload.type]
    /\ handlerCount' # handlerCount =>
          progress' = progress /\ posted' = posted
    /\ \A i \in DOMAIN progress :
          progress[i].state = "awaiting" =>
              /\ progress'[i].calls[1].handler = progress[i].calls[1].handler
              /\ progress'[i].state = "replied" =>
                    /\ Len(posted') = Len(posted) + 1
                    /\ posted'[Len(posted')].cause = i
                    /\ posted'[Len(posted')].msg.payload.messageId =
                          progress[i].calls[1].messageId

C16_HandlerFixedOnArrival == [][C16_LookupStep]_vars

\* A request was answered by the first handler although its type had been
\* given a second handler while the first was running.
C16_Witness ==
    \E i \in DOMAIN received :
        /\ IsRequest(i)
        /\ progress[i].state = "replied"
        /\ progress[i].calls # <<>>
        /\ progress[i].calls[1].handler = 1
        /\ progress[i].calls[1].settled = "true"
        /\ requestHandlers_[received[i].payload.type] = 2
        /\ i = Len(received)

\* C17: when the promise of an event handler resolves with something other
\* than true, the loop goes on over the handlers registered by then: the
\* next one, if there is one, is called for the event in that step.
C17_ResumeStep ==
    \A i \in DOMAIN progress :
        (/\ progress[i].state = "suspended"
         /\ progress'[i] # progress[i]
         /\ progress'[i].calls[Len(progress[i].calls)].settled \notin
                {"true", "rejected"})
        => LET before == Len(progress[i].calls)
               after == progress'[i].calls
           IN  IF Len(eventHandlers_) > before
               THEN /\ Len(after) > before
                    /\ after[before + 1].index = before + 1
                    /\ after[before + 1].handler = eventHandlers_[before + 1]
               ELSE Len(after) = before /\ progress'[i].state = "exhausted"

C17_LiveHandlerList == [][C17_ResumeStep]_vars

\* The first event waited on the first handler; a second event then found
\* that one handler only; the first event went on to a second handler.
C17_Witness ==
    /\ Len(received) = 2
    /\ IsEvent(1) /\ IsEvent(2)
    /\ progress[2].state = "exhausted"
    /\ Len(progress[2].calls) = 1
    /\ progress[2].calls[1].result = "false"
    /\ Len(progress[1].calls) = 2
    /\ progress[1].calls[1].settled = "1"
    /\ progress[1].calls[2].handler = 2

\* The requests whose handler has been called and has not settled yet.
InFlight == {i \in DOMAIN progress : progress[i].state = "awaiting"}

\* C18, in every step: (a) a request delivered for a type that has a
\* handler has that handler called in the step of its delivery, whatever
\* requests are still in flight, and those stay in flight; (b) the close of
\* a port leaves every request in flight as it is; (c) when the handler of
\* a request in flight returns, its response is posted in that step on the
\* port the request arrived on, whichever requests arrived before it and
\* whether or not that port has been closed.
C18_ConcurrentStep ==
    /\ (/\ Delivers
        /\ received'[Len(received')].channel = UPMServiceMessage
        /\ received'[Len(received')].payload.kind = Request
        /\ received'[Len(received')].payload.type \in DOMAIN requestHandlers_
        /\ received'[Len(received')].payload.hasArgs)
       => /\ Len(progress'[Len(progress')].calls) = 1
          /\ \A i \in InFlight : progress'[i] = progress[i]
    /\ (\E p \in ClientPortIds : ~ports[p].closed /\ ports'[p].closed)
       => progress' = progress /\ posted' = posted
    /\ \A i \in InFlight :
           (/\ progress'[i] # progress[i]
            /\ progress'[i].calls[1].settled \in {"true", "null"})
           => /\ progress'[i].state = "replied"
              /\ Len(posted') = Len(posted) + 1
              /\ posted'[Len(posted')].cause = i
              /\ posted'[Len(posted')].port = received[i].port
              /\ posted'[Len(posted')].msg.payload.messageId
                     = received[i].payload.messageId
              /\ \A j \in InFlight \ {i} : progress'[j] = progress[j]

C18_NotSerializedNotCancelled == [][C18_ConcurrentStep]_vars

\* Two requests arrived on a client port; the later one was answered first,
\* the port is closed, and both responses were posted on it.
C18_Witness ==
    /\ Len(received) = 3
    /\ IsRequest(2) /\ IsRequest(3)
    /\ received[2].port \in ClientPortIds
    /\ received[3].port = received[2].port
    /\ ports[received[2].port].closed
    /\ Len(posted) = 2
    /\ Answers(1, 3)
    /\ Answers(2, 2)

====
